---- MODULE Spec2Model ----
(***************************************************************************)
(* Model of the Jobly data-access layer: the partial-update builder        *)
(* (helpers/sql.js), the Job and Company models with their filter-query    *)
(* construction, and the jobs router.  JavaScript values, objects, the     *)
(* SQL text handed to db.query and the rows it returns are modelled        *)
(* explicitly so that clause text and bound parameters can be compared.    *)
(***************************************************************************)
EXTENDS Integers, Sequences, FiniteSets

VARIABLES jobs, companies, users, updates, last, tasks

vars == <<jobs, companies, users, updates, last, tasks>>

(***************************************************************************)
(* Bounds of the model.                                                    *)
(***************************************************************************)
MaxJobs == 2
MaxCompanies == 2
MaxKeys == 2
MaxFields == 2
MaxUpdates == 1

(***************************************************************************)
(* JavaScript values.  A string is a sequence of one-character strings; a  *)
(* number is kept in tenths (fixed point), so 0.5 is 5 and 3 is 30.        *)
(***************************************************************************)
Tenth == 10

Str(s) == [t |-> "string", s |-> s, n |-> 0, b |-> FALSE]
Frac(n) == [t |-> "number", s |-> <<>>, n |-> n, b |-> FALSE]
Num(i) == Frac(i * Tenth)
Bool(b) == [t |-> "boolean", s |-> <<>>, n |-> 0, b |-> b]
Undefined == [t |-> "undefined", s |-> <<>>, n |-> 0, b |-> FALSE]
Null == [t |-> "null", s |-> <<>>, n |-> 0, b |-> FALSE]

IsInteger(v) == v.t = "number" /\ v.n % Tenth = 0

Digits == <<"0", "1", "2", "3", "4", "5", "6", "7", "8", "9">>

RECURSIVE NatToString(_)
NatToString(k) ==
    IF k < 10 THEN <<Digits[k + 1]>>
    ELSE NatToString(k \div 10) \o <<Digits[(k % 10) + 1]>>

\* String(n) for a number kept in tenths.
NumberToString(n) ==
    LET a == IF n < 0 THEN -n ELSE n
        sign == IF n < 0 THEN <<"-">> ELSE <<>>
        frac == IF a % Tenth = 0 THEN <<>> ELSE <<".">> \o NatToString(a % Tenth)
    IN  sign \o NatToString(a \div Tenth) \o frac

\* The string a template literal `${v}` produces.
TemplateString(v) ==
    CASE v.t = "string" -> v.s
      [] v.t = "number" -> NumberToString(v.n)
      [] v.t = "boolean" -> IF v.b THEN <<"t", "r", "u", "e">>
                                   ELSE <<"f", "a", "l", "s", "e">>
      [] v.t = "null" -> <<"n", "u", "l", "l">>
      [] OTHER -> <<"u", "n", "d", "e", "f", "i", "n", "e", "d">>

\* JavaScript truthiness: "", 0, false, null and undefined are falsy.
Truthy(v) ==
    CASE v.t = "string" -> v.s # <<>>
      [] v.t = "number" -> v.n # 0
      [] v.t = "boolean" -> v.b
      [] OTHER -> FALSE

(***************************************************************************)
(* JavaScript objects: the own enumerable properties in insertion order,   *)
(* a sequence of [k |-> key, v |-> value] with distinct keys.              *)
(***************************************************************************)
Range(s) == {s[i] : i \in 1..Len(s)}

ObjectKeys(o) == [i \in 1..Len(o) |-> o[i].k]

ObjectValues(o) == [i \in 1..Len(o) |-> o[i].v]

HasKey(o, k) == \E i \in 1..Len(o) : o[i].k = k

\* o[k]: undefined when the object has no such property.
Get(o, k) ==
    IF HasKey(o, k) THEN o[CHOOSE i \in 1..Len(o) : o[i].k = k].v ELSE Undefined

\* o[k] = v: an existing property keeps its place, a new one is appended.
Put(o, k, v) ==
    IF HasKey(o, k)
    THEN [i \in 1..Len(o) |-> IF o[i].k = k THEN [k |-> k, v |-> v] ELSE o[i]]
    ELSE Append(o, [k |-> k, v |-> v])

(***************************************************************************)
(* SQL text, as a sequence of tokens: words, quoted identifiers and        *)
(* placeholders $n.                                                        *)
(***************************************************************************)
Word(w) == [k |-> "word", w |-> w, n |-> 0]
QuotedId(c) == [k |-> "qid", w |-> c, n |-> 0]
Placeholder(i) == [k |-> "ph", w |-> "$", n |-> i]

\* Array.prototype.join: the fragments with the separator between them.
RECURSIVE Join(_, _)
Join(frags, sep) ==
    IF Len(frags) = 0 THEN <<>>
    ELSE IF Len(frags) = 1 THEN frags[1]
    ELSE frags[1] \o <<sep>> \o Join(Tail(frags), sep)

Placeholders(sql) == SelectSeq(sql, LAMBDA tok : tok.k = "ph")

(***************************************************************************)
(* String constants of the source, spelled as character sequences.         *)
(***************************************************************************)
TrueText == <<"t", "r", "u", "e">>
FalseText == <<"f", "a", "l", "s", "e">>
ZeroText == <<"0">>
Percent == "%"

(***************************************************************************)
(* helpers/sql.js                                                          *)
(***************************************************************************)
\* jsToSql[colName] || colName: a missing (undefined) or empty entry is falsy.
ColumnFor(jsToSql, colName) ==
    IF colName \in DOMAIN jsToSql /\ jsToSql[colName] # ""
    THEN jsToSql[colName]
    ELSE colName

\* A slip that numbers the placeholders from the map index itself.
sqlForPartialUpdateFromZero(dataToUpdate, jsToSql) ==
    LET keys == ObjectKeys(dataToUpdate)
        cols == [i \in 1..Len(keys) |->
                    <<QuotedId(ColumnFor(jsToSql, keys[i])), Word("="),
                      Placeholder(i - 1)>>]
    IN  IF Len(keys) = 0
        THEN [threw |-> "BadRequestError", setCols |-> <<>>, values |-> <<>>]
        ELSE [threw |-> "none", setCols |-> Join(cols, Word(",")),
              values |-> ObjectValues(dataToUpdate)]

\* A slip that drops the guard on an empty payload.
sqlForPartialUpdateNoGuard(dataToUpdate, jsToSql) ==
    LET keys == ObjectKeys(dataToUpdate)
        cols == [i \in 1..Len(keys) |->
                    <<QuotedId(ColumnFor(jsToSql, keys[i])), Word("="),
                      Placeholder(i)>>]
    IN  [threw |-> "none", setCols |-> Join(cols, Word(",")),
         values |-> ObjectValues(dataToUpdate)]

sqlForPartialUpdate(dataToUpdate, jsToSql) ==
    LET keys == ObjectKeys(dataToUpdate)
        \* keys.map((colName, idx) => `"${...}"=$${idx + 1}`): idx is i - 1
        cols == [i \in 1..Len(keys) |->
                    <<QuotedId(ColumnFor(jsToSql, keys[i])), Word("="),
                      Placeholder((i - 1) + 1)>>]
    IN  IF Len(keys) = 0
        THEN [threw |-> "BadRequestError", setCols |-> <<>>, values |-> <<>>]
        ELSE [threw |-> "none", setCols |-> Join(cols, Word(",")),
              values |-> ObjectValues(dataToUpdate)]

\* The translation tables the callers pass.
JobJsToSql == [k \in {"companyHandle"} |-> "company_handle"]

CompanyJsToSql ==
    [k \in {"numEmployees", "logoUrl"} |->
        IF k = "numEmployees" THEN "num_employees" ELSE "logo_url"]

UserJsToSql ==
    [k \in {"firstName", "lastName", "isAdmin"} |->
        CASE k = "firstName" -> "first_name"
          [] k = "lastName" -> "last_name"
          [] OTHER -> "is_admin"]

(***************************************************************************)
(* The parameterized-query executor behind db.query (PostgreSQL through    *)
(* node-postgres), as far as the statements of the models use it.          *)
(***************************************************************************)
\* Columns named by the INSERT statements, with their SQL types.
JobColumns ==
    [c \in {"title", "salary", "equity", "company_handle"} |->
        CASE c = "salary" -> "integer"
          [] c = "equity" -> "numeric"
          [] OTHER -> "text"]

CompanyColumns ==
    [c \in {"handle", "name", "description", "num_employees", "logo_url"} |->
        IF c = "num_employees" THEN "integer" ELSE "text"]

IsDigit(c) == \E i \in 1..Len(Digits) : Digits[i] = c

DigitValue(c) == (CHOOSE i \in 1..Len(Digits) : Digits[i] = c) - 1

RECURSIVE ParseNat(_)
ParseNat(s) ==
    IF Len(s) = 0 THEN 0
    ELSE ParseNat(SubSeq(s, 1, Len(s) - 1)) * 10 + DigitValue(s[Len(s)])

IsNatText(s) == Len(s) > 0 /\ \A i \in 1..Len(s) : IsDigit(s[i])

\* A bound parameter read as the type its placeholder is compared with.
\* null and undefined bind NULL; anything else is sent as text and parsed.
Coerce(v, type) ==
    CASE v.t \in {"null", "undefined"} -> [ok |-> TRUE, v |-> Null]
      [] type = "text" -> [ok |-> TRUE, v |-> Str(TemplateString(v))]
      [] v.t = "number" ->
            [ok |-> type = "numeric" \/ IsInteger(v), v |-> v]
      [] v.t = "string" ->
            IF IsNatText(v.s) THEN [ok |-> TRUE, v |-> Num(ParseNat(v.s))]
            ELSE [ok |-> FALSE, v |-> Null]
      [] OTHER -> [ok |-> FALSE, v |-> Null]

LowerCase(c) ==
    CASE c = "C" -> "c"
      [] c = "K" -> "k"
      [] c = "M" -> "m"
      [] c = "T" -> "t"
      [] OTHER -> c

\* s LIKE p, compared without regard to case: % matches any run of
\* characters, _ any one character.
RECURSIVE ILike(_, _)
ILike(s, p) ==
    IF Len(p) = 0 THEN Len(s) = 0
    ELSE IF p[1] = "%"
         THEN ILike(s, Tail(p)) \/ (Len(s) > 0 /\ ILike(Tail(s), p))
    ELSE IF Len(s) = 0 THEN FALSE
    ELSE (p[1] = "_" \/ LowerCase(p[1]) = LowerCase(s[1]))
         /\ ILike(Tail(s), Tail(p))

\* One comparison of a WHERE clause on one row; a NULL operand never holds.
Compare(x, op, y) ==
    IF x.t = "null" \/ y.t = "null" THEN FALSE
    ELSE CASE op = "ILIKE" -> ILike(x.s, y.s)
           [] op = ">=" -> x.n >= y.n
           [] op = "<=" -> x.n <= y.n
           [] op = ">" -> x.n > y.n
           [] op = "=" -> x = y
           [] OTHER -> FALSE

\* A list "a op $i SEP b op $j ..." read as [col, op, ph] triples; ok is
\* FALSE on text that is no such list (a syntax error), also the empty one.
ParseList(toks, sep) ==
    LET n == (Len(toks) + 1) \div 4
        shaped ==
            /\ Len(toks) % 4 = 3
            /\ \A i \in 1..n :
                  /\ toks[4 * i - 3].k \in {"word", "qid"}
                  /\ toks[4 * i - 2].k = "word"
                  /\ toks[4 * i - 1].k = "ph"
                  /\ (i < n => toks[4 * i] = Word(sep))
    IN  IF shaped
        THEN [ok |-> TRUE,
              items |-> [i \in 1..n |->
                  [col |-> toks[4 * i - 3].w, op |-> toks[4 * i - 2].w,
                   ph |-> toks[4 * i - 1].n]]]
        ELSE [ok |-> FALSE, items |-> <<>>]

\* "" or "WHERE <conditions>"; "WHERE" with nothing after it is an error.
ParseWhere(whereClause) ==
    IF Len(whereClause) = 0 THEN [ok |-> TRUE, items |-> <<>>]
    ELSE IF whereClause[1] # Word("WHERE") THEN [ok |-> FALSE, items |-> <<>>]
    ELSE ParseList(Tail(whereClause), "AND")

\* The statement prepares and binds: every column exists, the placeholders
\* are $1..$n for the n parameters supplied, and each parameter reads as
\* the type of the column it is compared with or assigned to.
Binds(items, columns, params) ==
    /\ \A i \in 1..Len(items) :
          /\ items[i].col \in DOMAIN columns
          /\ items[i].ph \in 1..Len(params)
          /\ Coerce(params[items[i].ph], columns[items[i].col]).ok
    /\ \A j \in 1..Len(params) : \E i \in 1..Len(items) : items[i].ph = j

RowMatches(row, items, columns, params) ==
    \A i \in 1..Len(items) :
        Compare(row[items[i].col], items[i].op,
                Coerce(params[items[i].ph], columns[items[i].col]).v)

\* Order of the collation: character by character, a prefix first.
Alphabet ==
    <<"%", "-", ".", "0", "1", "2", "3", "4", "5", "6", "7", "8", "9",
      "C", "K", "M", "T", "_", "a", "c", "d", "e", "f", "i", "k", "l", "m",
      "n", "o", "p", "r", "s", "t", "u", "x", "y">>

CharRank(c) == CHOOSE i \in 1..Len(Alphabet) : Alphabet[i] = c

RECURSIVE TextLeq(_, _)
TextLeq(a, b) ==
    IF Len(a) = 0 THEN TRUE
    ELSE IF Len(b) = 0 THEN FALSE
    ELSE IF a[1] = b[1] THEN TextLeq(Tail(a), Tail(b))
    ELSE CharRank(a[1]) < CharRank(b[1])

\* ORDER BY col: every arrangement of the rows that ascends on col (rows
\* that tie come in an order the engine chooses).
OrderBy(rows, col) ==
    LET n == Len(rows)
        perms == {p \in [1..n -> 1..n] : \A i, j \in 1..n : i # j => p[i] # p[j]}
        ascending(p) ==
            \A i \in 1..n : i < n => TextLeq(rows[p[i]][col].s, rows[p[i + 1]][col].s)
    IN  {[i \in 1..n |-> rows[p[i]]] : p \in {q \in perms : ascending(q)}}

\* SELECT ... FROM table <whereClause>: ok and the rows that match, in
\* table order.
Select(table, columns, whereClause, params) ==
    LET w == ParseWhere(whereClause)
        ok == w.ok /\ Binds(w.items, columns, params)
    IN  [ok |-> ok,
         rows |-> IF ok
                  THEN SelectSeq(table,
                           LAMBDA row : RowMatches(row, w.items, columns, params))
                  ELSE <<>>]

\* The shape of the rows of SELECT/RETURNING: an unquoted alias folds to
\* lower case, and a NUMERIC column comes back as text.
NumericText(v) == IF v.t = "null" THEN Null ELSE Str(NumberToString(v.n))

ShapeJob(row) ==
    [title |-> row.title, salary |-> row.salary,
     equity |-> NumericText(row.equity), companyhandle |-> row.company_handle]

ShapeCompany(row) ==
    [handle |-> row.handle, name |-> row.name, description |-> row.description,
     numEmployees |-> row.num_employees, logoUrl |-> row.logo_url]

ShapeJobs(rows) == [i \in 1..Len(rows) |-> ShapeJob(rows[i])]

ShapeCompanies(rows) == [i \in 1..Len(rows) |-> ShapeCompany(rows[i])]

(***************************************************************************)
(* Arguments of a call: an object, or no argument at all.                  *)
(***************************************************************************)
Obj(o) == [t |-> "object", o |-> o]
NoArgument == [t |-> "undefined", o |-> <<>>]

\* What a call leaves behind: the error thrown (or "none"), the keys its
\* message names, the clause text and parameters of the statement issued,
\* the possible results (one per order the engine may return), the
\* caller's object after the call and the number of statements issued.
Outcome(threw, named, sql, params, rowsets, query, stmts) ==
    [threw |-> threw, named |-> named, sql |-> sql, params |-> params,
     rowsets |-> rowsets, query |-> query, stmts |-> stmts]

(***************************************************************************)
(* models/job.js                                                           *)
(***************************************************************************)
JobMakeKeyStatementsForWhereClauses(query, key, idx) ==
    LET hasEquity == Get(query, "hasEquity")
        equityAmt == IF hasEquity = Str(FalseText) \/ ~Truthy(hasEquity)
                     THEN "=" ELSE ">"
    IN  CASE key = "title" ->
                <<Word("title"), Word("ILIKE"), Placeholder(idx + 1)>>
          [] key = "minSalary" ->
                <<Word("salary"), Word(">="), Placeholder(idx + 1)>>
          [] key = "hasEquity" ->
                <<Word("equity"), Word(equityAmt), Placeholder(idx + 1)>>
          [] OTHER -> <<>>

JobValidParams == <<"title", "minSalary", "hasEquity">>

\* A slip that reports only the first offending key.
JobCheckForBadQueriesFirstOnly(keys) ==
    LET invalidKeys == SelectSeq(keys, LAMBDA k : k \notin Range(JobValidParams))
    IN  [threw |-> IF Len(invalidKeys) > 0 THEN "BadRequestError" ELSE "none",
         named |-> IF Len(invalidKeys) > 0 THEN <<invalidKeys[1]>> ELSE <<>>]

JobCheckForBadQueries(keys) ==
    LET invalidKeys == SelectSeq(keys, LAMBDA k : k \notin Range(JobValidParams))
    IN  [threw |-> IF Len(invalidKeys) > 0 THEN "BadRequestError" ELSE "none",
         named |-> invalidKeys]

\* Values that Job.findAll drops from the parameter list.
BooleanLike == {Bool(TRUE), Bool(FALSE), Str(TrueText), Str(FalseText)}

\* A slip that orders the result by table position instead of by title.
JobOrderUnsorted(rows) == {rows}

JobOrder(rows) == OrderBy(rows, "title")

JobFindAll(table, arg) ==
    LET query0 == IF arg.t = "undefined" THEN <<>> ELSE arg.o
        keys == ObjectKeys(query0)
        bad == JobCheckForBadQueries(keys)
        queryKeys ==
            Join([i \in 1..Len(keys) |->
                    JobMakeKeyStatementsForWhereClauses(query0, keys[i], i - 1)],
                 Word("AND"))
        whereClause ==
            IF Len(queryKeys) > 0 THEN <<Word("WHERE")>> \o queryKeys ELSE <<>>
        title == Get(query0, "title")
        query == IF Truthy(title)
                 THEN Put(query0, "title",
                          Str(<<Percent>> \o TemplateString(title) \o <<Percent>>))
                 ELSE query0
        filtered == SelectSeq(ObjectValues(query), LAMBDA v : v \notin BooleanLike)
        values == IF Get(query, "hasEquity") # Undefined
                  THEN Append(filtered, Str(ZeroText))
                  ELSE filtered
        res == Select(table, JobColumns, whereClause, values)
    IN  IF bad.threw # "none"
        THEN Outcome(bad.threw, bad.named, <<>>, <<>>, {<<>>}, query0, 0)
        ELSE IF ~res.ok
        THEN Outcome("DbError", <<>>, whereClause, values, {<<>>}, query, 1)
        ELSE Outcome("none", <<>>, whereClause, values,
                     {ShapeJobs(r) : r \in JobOrder(res.rows)}, query, 1)

(***************************************************************************)
(* models/company.js                                                       *)
(***************************************************************************)
\* A slip that numbers the placeholders with idx itself.
CompanyMakeKeyStatementsFromIdx(key, idx) ==
    CASE key = "name" -> <<Word("name"), Word("ILIKE"), Placeholder(idx)>>
      [] key = "minEmployees" ->
            <<Word("num_employees"), Word(">="), Placeholder(idx)>>
      [] key = "maxEmployees" ->
            <<Word("num_employees"), Word("<="), Placeholder(idx)>>
      [] OTHER -> <<>>

CompanyMakeKeyStatementsForWhereClauses(key, idx) ==
    CASE key = "name" -> <<Word("name"), Word("ILIKE"), Placeholder(idx + 1)>>
      [] key = "minEmployees" ->
            <<Word("num_employees"), Word(">="), Placeholder(idx + 1)>>
      [] key = "maxEmployees" ->
            <<Word("num_employees"), Word("<="), Placeholder(idx + 1)>>
      [] OTHER -> <<>>

CompanyValidParams == <<"name", "minEmployees", "maxEmployees">>

CompanyFindAll(table, arg) ==
    LET isNull == arg.t = "undefined"     \* query = null by default
        query0 == arg.o
        keys == ObjectKeys(query0)
        invalidKeys ==
            SelectSeq(keys, LAMBDA k : k \notin Range(CompanyValidParams))
        queryKeys ==
            Join([i \in 1..Len(keys) |->
                    CompanyMakeKeyStatementsForWhereClauses(keys[i], i - 1)],
                 Word("AND"))
        name == Get(query0, "name")
        query == IF Truthy(name)
                 THEN Put(query0, "name",
                          Str(<<Percent>> \o TemplateString(name) \o <<Percent>>))
                 ELSE query0
        values == ObjectValues(query)
        whereClause == <<Word("WHERE")>> \o queryKeys
        res == Select(table, CompanyColumns, whereClause, values)
    IN  IF isNull     \* Object.keys(null) throws before the !query test
        THEN Outcome("TypeError", <<>>, <<>>, <<>>, {<<>>}, <<>>, 0)
        ELSE IF Len(invalidKeys) > 0
        THEN Outcome("BadRequestError", invalidKeys, <<>>, <<>>, {<<>>}, query0, 0)
        ELSE IF ~res.ok
        THEN Outcome("DbError", <<>>, whereClause, values, {<<>>}, query, 1)
        ELSE Outcome("none", <<>>, whereClause, values,
                     {ShapeCompanies(r) : r \in OrderBy(res.rows, "name")},
                     query, 1)

(***************************************************************************)
(* Statements that change a table.                                         *)
(***************************************************************************)
\* The constraints of the schema: a handle names one company, and every
\* position has a title and names a stored company.
Integrity(jobsT, companiesT) ==
    /\ \A i, j \in 1..Len(companiesT) :
          i # j => companiesT[i].handle # companiesT[j].handle
    /\ \A i \in 1..Len(companiesT) : companiesT[i].handle.t = "string"
    /\ \A i \in 1..Len(jobsT) :
          /\ jobsT[i].title.t = "string"
          /\ \E j \in 1..Len(companiesT) :
                companiesT[j].handle = jobsT[i].company_handle

\* SET col = $n, ...: the row with each listed column replaced.
RECURSIVE Assign(_, _, _, _)
Assign(row, items, columns, params) ==
    IF Len(items) = 0 THEN row
    ELSE Assign([row EXCEPT ![items[1].col] =
                    Coerce(params[items[1].ph], columns[items[1].col]).v],
                Tail(items), columns, params)

\* UPDATE table SET <setCols> <whereClause> RETURNING ...: ok, the table
\* after it and the rows it changed.  A statement that fails changes nothing.
Update(table, columns, setCols, whereClause, params) ==
    LET sets == ParseList(setCols, ",")
        w == ParseWhere(whereClause)
        ok == /\ sets.ok
              /\ w.ok
              /\ \A i, j \in 1..Len(sets.items) :
                    i # j => sets.items[i].col # sets.items[j].col
              /\ Binds(sets.items \o w.items, columns, params)
        hit(row) == RowMatches(row, w.items, columns, params)
        changed(row) == Assign(row, sets.items, columns, params)
    IN  IF ok
        THEN [ok |-> TRUE,
              table |-> [i \in 1..Len(table) |->
                            IF hit(table[i]) THEN changed(table[i]) ELSE table[i]],
              rows |-> LET hits == SelectSeq(table, hit)
                       IN  [i \in 1..Len(hits) |-> changed(hits[i])]]
        ELSE [ok |-> FALSE, table |-> table, rows |-> <<>>]

\* What a call that changes storage leaves behind, with the tables after it.
Effect(out, jobsT, companiesT) ==
    [out |-> out, jobs |-> jobsT, companies |-> companiesT]

JobCreate(jobsT, companiesT, data) ==
    LET title == Coerce(Get(data, "title"), JobColumns["title"])
        salary == Coerce(Get(data, "salary"), JobColumns["salary"])
        equity == Coerce(Get(data, "equity"), JobColumns["equity"])
        handle == Coerce(Get(data, "companyHandle"), JobColumns["company_handle"])
        params == <<Get(data, "title"), Get(data, "salary"), Get(data, "equity"),
                    Get(data, "companyHandle")>>
        row == [title |-> title.v, salary |-> salary.v, equity |-> equity.v,
                company_handle |-> handle.v]
        after == Append(jobsT, row)
        ok == /\ title.ok /\ salary.ok /\ equity.ok /\ handle.ok
              /\ Integrity(after, companiesT)
    IN  IF ok
        THEN Effect(Outcome("none", <<>>, <<>>, params, {<<ShapeJob(row)>>}, data, 1),
                    after, companiesT)
        ELSE Effect(Outcome("DbError", <<>>, <<>>, params, {<<>>}, data, 1),
                    jobsT, companiesT)

\* A slip that numbers the WHERE placeholder with values.length.
JobUpdateWhereOffByOne(jobsT, companiesT, title, data) ==
    LET built == sqlForPartialUpdate(data, JobJsToSql)
        handleVarIdx == Placeholder(Len(built.values))
        whereClause == <<Word("WHERE"), Word("title"), Word("="), handleVarIdx>>
        params == Append(built.values, Str(title))
        res == Update(jobsT, JobColumns, built.setCols, whereClause, params)
        ok == res.ok /\ Integrity(res.table, companiesT)
        sql == <<Word("SET")>> \o built.setCols \o whereClause
    IN  IF built.threw # "none"
        THEN Effect(Outcome(built.threw, <<>>, <<>>, <<>>, {<<>>}, data, 0),
                    jobsT, companiesT)
        ELSE IF ~ok
        THEN Effect(Outcome("DbError", <<>>, sql, params, {<<>>}, data, 1),
                    jobsT, companiesT)
        ELSE IF Len(res.rows) = 0
        THEN Effect(Outcome("NotFoundError", <<>>, sql, params, {<<>>}, data, 1),
                    res.table, companiesT)
        ELSE Effect(Outcome("none", <<>>, sql, params,
                            {<<ShapeJob(res.rows[1])>>}, data, 1),
                    res.table, companiesT)

JobUpdate(jobsT, companiesT, title, data) ==
    LET built == sqlForPartialUpdate(data, JobJsToSql)
        handleVarIdx == Placeholder(Len(built.values) + 1)
        whereClause == <<Word("WHERE"), Word("title"), Word("="), handleVarIdx>>
        params == Append(built.values, Str(title))
        res == Update(jobsT, JobColumns, built.setCols, whereClause, params)
        ok == res.ok /\ Integrity(res.table, companiesT)
        sql == <<Word("SET")>> \o built.setCols \o whereClause
    IN  IF built.threw # "none"
        THEN Effect(Outcome(built.threw, <<>>, <<>>, <<>>, {<<>>}, data, 0),
                    jobsT, companiesT)
        ELSE IF ~ok
        THEN Effect(Outcome("DbError", <<>>, sql, params, {<<>>}, data, 1),
                    jobsT, companiesT)
        ELSE IF Len(res.rows) = 0
        THEN Effect(Outcome("NotFoundError", <<>>, sql, params, {<<>>}, data, 1),
                    res.table, companiesT)
        ELSE Effect(Outcome("none", <<>>, sql, params,
                            {<<ShapeJob(res.rows[1])>>}, data, 1),
                    res.table, companiesT)

\* The two statements of Company.create: the SELECT that looks for the
\* handle, and the INSERT.
CompanyDuplicateCheck(companiesT, data) ==
    Select(companiesT, CompanyColumns,
           <<Word("WHERE"), Word("handle"), Word("="), Placeholder(1)>>,
           <<Get(data, "handle")>>)

CompanyInsert(jobsT, companiesT, data) ==
    LET params == <<Get(data, "handle"), Get(data, "name"), Get(data, "description"),
                    Get(data, "numEmployees"), Get(data, "logoUrl")>>
        name == Coerce(params[2], CompanyColumns["name"])
        description == Coerce(params[3], CompanyColumns["description"])
        numEmployees == Coerce(params[4], CompanyColumns["num_employees"])
        logoUrl == Coerce(params[5], CompanyColumns["logo_url"])
        row == [handle |-> Coerce(params[1], CompanyColumns["handle"]).v,
                name |-> name.v, description |-> description.v,
                num_employees |-> numEmployees.v, logo_url |-> logoUrl.v]
        after == Append(companiesT, row)
        ok == /\ name.ok /\ description.ok /\ numEmployees.ok /\ logoUrl.ok
              /\ Integrity(jobsT, after)
    IN  IF ~ok
        THEN Effect(Outcome("DbError", <<>>, <<>>, params, {<<>>}, data, 2),
                    jobsT, companiesT)
        ELSE Effect(Outcome("none", <<>>, <<>>, params, {<<ShapeCompany(row)>>}, data, 2),
                    jobsT, after)

\* A slip that inserts without looking for the handle first.
CompanyCreateUnchecked(jobsT, companiesT, data) ==
    LET params == <<Get(data, "handle"), Get(data, "name"), Get(data, "description"),
                    Get(data, "numEmployees"), Get(data, "logoUrl")>>
        row == [handle |-> Coerce(params[1], CompanyColumns["handle"]).v,
                name |-> Coerce(params[2], CompanyColumns["name"]).v,
                description |-> Coerce(params[3], CompanyColumns["description"]).v,
                num_employees |-> Coerce(params[4], CompanyColumns["num_employees"]).v,
                logo_url |-> Coerce(params[5], CompanyColumns["logo_url"]).v]
        after == Append(companiesT, row)
    IN  IF Integrity(jobsT, after)
        THEN Effect(Outcome("none", <<>>, <<>>, params, {<<ShapeCompany(row)>>}, data, 1),
                    jobsT, after)
        ELSE Effect(Outcome("DbError", <<>>, <<>>, params, {<<>>}, data, 1),
                    jobsT, companiesT)

CompanyCreate(jobsT, companiesT, data) ==
    LET duplicateCheck == CompanyDuplicateCheck(companiesT, data)
    IN  IF Len(duplicateCheck.rows) > 0
        THEN Effect(Outcome("BadRequestError", <<>>, <<>>, <<Get(data, "handle")>>,
                            {<<>>}, data, 1),
                    jobsT, companiesT)
        ELSE CompanyInsert(jobsT, companiesT, data)

CompanyUpdate(jobsT, companiesT, handle, data) ==
    LET built == sqlForPartialUpdate(data, CompanyJsToSql)
        handleVarIdx == Placeholder(Len(built.values) + 1)
        whereClause == <<Word("WHERE"), Word("handle"), Word("="), handleVarIdx>>
        params == Append(built.values, Str(handle))
        res == Update(companiesT, CompanyColumns, built.setCols, whereClause, params)
        ok == res.ok /\ Integrity(jobsT, res.table)
        sql == <<Word("SET")>> \o built.setCols \o whereClause
    IN  IF built.threw # "none"
        THEN Effect(Outcome(built.threw, <<>>, <<>>, <<>>, {<<>>}, data, 0),
                    jobsT, companiesT)
        ELSE IF ~ok
        THEN Effect(Outcome("DbError", <<>>, sql, params, {<<>>}, data, 1),
                    jobsT, companiesT)
        ELSE IF Len(res.rows) = 0
        THEN Effect(Outcome("NotFoundError", <<>>, sql, params, {<<>>}, data, 1),
                    jobsT, res.table)
        ELSE Effect(Outcome("none", <<>>, sql, params,
                            {<<ShapeCompany(res.rows[1])>>}, data, 1),
                    jobsT, res.table)

(***************************************************************************)
(* get and remove of both models.  The identifier is the value the caller  *)
(* passes: a string, or undefined, which is bound as NULL.                 *)
(***************************************************************************)
\* WHERE <col> = $1, the clause of get and remove.
WhereIs(col) == <<Word("WHERE"), Word(col), Word("="), Placeholder(1)>>

\* result.rows[0] of a SELECT with no ORDER BY: whichever matching row the
\* engine returns first.
\* A slip whose message leaves the title out.
JobGetNameless(jobsT, title) ==
    LET res == Select(jobsT, JobColumns, WhereIs("title"), <<title>>)
    IN  IF Len(res.rows) = 0
        THEN Outcome("NotFoundError", <<>>, WhereIs("title"), <<title>>, {<<>>},
                     <<>>, 1)
        ELSE Outcome("none", <<>>, WhereIs("title"), <<title>>,
                     {<<ShapeJob(res.rows[i])>> : i \in 1..Len(res.rows)}, <<>>, 1)

\* The message of NotFoundError is `No job with the following title: ${title}`;
\* named keeps the text the template puts in.
JobGet(jobsT, title) ==
    LET res == Select(jobsT, JobColumns, WhereIs("title"), <<title>>)
    IN  IF Len(res.rows) = 0
        THEN Outcome("NotFoundError", <<TemplateString(title)>>, WhereIs("title"), <<title>>, {<<>>},
                     <<>>, 1)
        ELSE Outcome("none", <<>>, WhereIs("title"), <<title>>,
                     {<<ShapeJob(res.rows[i])>> : i \in 1..Len(res.rows)}, <<>>, 1)

CompanyGet(companiesT, handle) ==
    LET res == Select(companiesT, CompanyColumns, WhereIs("handle"), <<handle>>)
    IN  IF Len(res.rows) = 0
        THEN Outcome("NotFoundError", <<TemplateString(handle)>>, WhereIs("handle"), <<handle>>, {<<>>},
                     <<>>, 1)
        ELSE Outcome("none", <<>>, WhereIs("handle"), <<handle>>,
                     {<<ShapeCompany(res.rows[i])>> : i \in 1..Len(res.rows)},
                     <<>>, 1)

\* DELETE FROM table WHERE col = $1 RETURNING col: the rows that stay, and
\* the rows that went.
Delete(table, columns, col, id) ==
    LET w == ParseWhere(WhereIs(col))
        hit(row) == RowMatches(row, w.items, columns, <<id>>)
    IN  [table |-> SelectSeq(table, LAMBDA row : ~hit(row)),
         rows |-> SelectSeq(table, hit)]

\* Positions of a deleted company go with it: the tests empty companies
\* while positions still name them.
OnDeleteCascade(jobsT, companiesT) ==
    SelectSeq(jobsT, LAMBDA row :
        \E j \in 1..Len(companiesT) : companiesT[j].handle = row.company_handle)

\* A slip that reports success whether or not a row was deleted.
JobRemoveSilent(jobsT, companiesT, title) ==
    LET res == Delete(jobsT, JobColumns, "title", title)
    IN  Effect(Outcome("none", <<>>, WhereIs("title"), <<title>>, {<<>>}, <<>>, 1),
               res.table, companiesT)

JobRemove(jobsT, companiesT, title) ==
    LET res == Delete(jobsT, JobColumns, "title", title)
    IN  IF Len(res.rows) = 0
        THEN Effect(Outcome("NotFoundError", <<>>, WhereIs("title"), <<title>>,
                            {<<>>}, <<>>, 1),
                    jobsT, companiesT)
        ELSE Effect(Outcome("none", <<>>, WhereIs("title"), <<title>>, {<<>>},
                            <<>>, 1),
                    res.table, companiesT)

CompanyRemove(jobsT, companiesT, handle) ==
    LET res == Delete(companiesT, CompanyColumns, "handle", handle)
    IN  IF Len(res.rows) = 0
        THEN Effect(Outcome("NotFoundError", <<>>, WhereIs("handle"), <<handle>>,
                            {<<>>}, <<>>, 1),
                    jobsT, companiesT)
        ELSE Effect(Outcome("none", <<>>, WhereIs("handle"), <<handle>>, {<<>>},
                            <<>>, 1),
                    OnDeleteCascade(jobsT, res.table), res.table)

(***************************************************************************)
(* routes/jobs.js: PATCH /jobs/:title                                      *)
(***************************************************************************)
Anonymous == [authenticated |-> FALSE, isAdmin |-> FALSE, username |-> ""]
User == [authenticated |-> TRUE, isAdmin |-> FALSE, username |-> "u1"]
Admin == [authenticated |-> TRUE, isAdmin |-> TRUE, username |-> "newAdmin"]

Callers == {Anonymous, User, Admin}

\* The gate in front of the mutating routes: a logged-in admin passes.
EnsureLoggedInAndIsAdmin(caller) == caller.authenticated /\ caller.isAdmin

\* jsonschema.validate(body, jobUpdateSchema).errors, as [prop, rule] in the
\* order of the schema.  Properties the schema does not list are accepted
\* (additionalProperties is true) and nothing is required.
JobUpdateErrors(body) ==
    LET Err(prop, rule, broken) ==
            IF broken THEN <<[prop |-> prop, rule |-> rule]>> ELSE <<>>
        title == Get(body, "title")
        salary == Get(body, "salary")
        equity == Get(body, "equity")
        companyHandle == Get(body, "companyHandle")
    IN  Err("title", "type", title # Undefined /\ title.t # "string")
        \o Err("salary", "type", salary # Undefined /\ ~IsInteger(salary))
        \o Err("salary", "minimum", salary.t = "number" /\ salary.n < 0)
        \o Err("equity", "type", equity # Undefined /\ equity.t # "number")
        \o Err("equity", "minimum", equity.t = "number" /\ equity.n < 0)
        \o Err("equity", "maximum", equity.t = "number" /\ equity.n > 1 * Tenth)
        \o Err("companyHandle", "type",
               companyHandle # Undefined /\ companyHandle.t # "string")

\* A slip that reports validator.errors[0] alone.
JobsPatchFirstOnly(jobsT, companiesT, caller, title, body) ==
    LET errs == JobUpdateErrors(body)
    IN  IF ~EnsureLoggedInAndIsAdmin(caller)
        THEN Effect(Outcome("UnauthorizedError", <<>>, <<>>, <<>>, {<<>>}, body, 0),
                    jobsT, companiesT)
        ELSE IF Len(errs) > 0
        THEN Effect(Outcome("BadRequestError", <<errs[1]>>, <<>>, <<>>, {<<>>}, body, 0),
                    jobsT, companiesT)
        ELSE JobUpdate(jobsT, companiesT, title, body)

JobsPatch(jobsT, companiesT, caller, title, body) ==
    LET errs == JobUpdateErrors(body)
    IN  IF ~EnsureLoggedInAndIsAdmin(caller)
        THEN Effect(Outcome("UnauthorizedError", <<>>, <<>>, <<>>, {<<>>}, body, 0),
                    jobsT, companiesT)
        ELSE IF Len(errs) > 0
        THEN Effect(Outcome("BadRequestError", errs, <<>>, <<>>, {<<>>}, body, 0),
                    jobsT, companiesT)
        ELSE JobUpdate(jobsT, companiesT, title, body)

(***************************************************************************)
(* routes/jobs.js: the other routes.  A response is the error passed to    *)
(* next, or the body sent.                                                 *)
(***************************************************************************)
\* req.params of a route whose path names one parameter.
Params(name, value) == <<[k |-> name, v |-> Str(value)]>>

\* jsonschema.validate(body, jobNewSchema).errors: every field is required,
\* with the types of the update schema.
JobNewErrors(body) ==
    LET Missing(prop) ==
            IF HasKey(body, prop) THEN <<>>
            ELSE <<[prop |-> prop, rule |-> "required"]>>
    IN  Missing("title") \o Missing("salary") \o Missing("equity")
        \o Missing("companyHandle") \o JobUpdateErrors(body)

JobsPost(jobsT, companiesT, caller, body) ==
    LET errs == JobNewErrors(body)
    IN  IF ~EnsureLoggedInAndIsAdmin(caller)
        THEN Effect(Outcome("UnauthorizedError", <<>>, <<>>, <<>>, {<<>>}, body, 0),
                    jobsT, companiesT)
        ELSE IF Len(errs) > 0
        THEN Effect(Outcome("BadRequestError", errs, <<>>, <<>>, {<<>>}, body, 0),
                    jobsT, companiesT)
        ELSE JobCreate(jobsT, companiesT, body)

\* GET /jobs and GET /jobs/:title have no gate.
JobsGet(jobsT, companiesT, caller, query) ==
    Effect(JobFindAll(jobsT, Obj(query)), jobsT, companiesT)

JobsGetOne(jobsT, companiesT, caller, path) ==
    LET params == Params("title", path)
    IN  Effect(JobGet(jobsT, Get(params, "title")), jobsT, companiesT)

\* A slip that lets every caller through to Job.remove.
JobsDeleteUngated(jobsT, companiesT, caller, path) ==
    LET params == Params("handle", path)
        removed == JobRemove(jobsT, companiesT, Get(params, "title"))
    IN  IF removed.out.threw # "none" THEN removed
        ELSE Effect(Outcome("none", <<>>, removed.out.sql, removed.out.params,
                            {<<[deleted |-> Get(params, "title")]>>}, <<>>, 1),
                    removed.jobs, removed.companies)

\* router.delete("/:handle", ...): the path parameter is named handle, and
\* the handler reads req.params.title.
JobsDelete(jobsT, companiesT, caller, path) ==
    LET params == Params("handle", path)
        removed == JobRemove(jobsT, companiesT, Get(params, "title"))
    IN  IF ~EnsureLoggedInAndIsAdmin(caller)
        THEN Effect(Outcome("UnauthorizedError", <<>>, <<>>, <<>>, {<<>>}, <<>>, 0),
                    jobsT, companiesT)
        ELSE IF removed.out.threw # "none" THEN removed
        ELSE Effect(Outcome("none", <<>>, removed.out.sql, removed.out.params,
                            {<<[deleted |-> Get(params, "title")]>>}, <<>>, 1),
                    removed.jobs, removed.companies)

(***************************************************************************)
(* models/user.js, as far as the users router uses it: accounts by         *)
(* username, with the first name as the field an update changes.           *)
(***************************************************************************)
UserEffect(out, usersT) == [out |-> out, users |-> usersT]

UserIndex(usersT, username) == {i \in 1..Len(usersT) : usersT[i].username = username}

UserRegister(usersT, data) ==
    LET row == [username |-> Get(data, "username"), firstName |-> Get(data, "firstName")]
    IN  IF UserIndex(usersT, row.username) # {}
        THEN UserEffect(Outcome("BadRequestError", <<>>, <<>>, <<>>, {<<>>}, data, 1),
                        usersT)
        ELSE UserEffect(Outcome("none", <<>>, <<>>, <<>>, {<<row>>}, data, 2),
                        Append(usersT, row))

UserFindAll(usersT) ==
    UserEffect(Outcome("none", <<>>, <<>>, <<>>, {usersT}, <<>>, 1), usersT)

UserGet(usersT, username) ==
    LET hits == UserIndex(usersT, username)
    IN  IF hits = {}
        THEN UserEffect(Outcome("NotFoundError", <<>>, <<>>, <<username>>, {<<>>},
                                <<>>, 1),
                        usersT)
        ELSE UserEffect(Outcome("none", <<>>, <<>>, <<username>>,
                                {<<usersT[i]>> : i \in hits}, <<>>, 1),
                        usersT)

UserUpdate(usersT, username, data) ==
    LET built == sqlForPartialUpdate(data, UserJsToSql)
        hits == UserIndex(usersT, username)
        changed(row) == [row EXCEPT !.firstName =
                            IF HasKey(data, "firstName") THEN Get(data, "firstName")
                            ELSE @]
        after == [i \in 1..Len(usersT) |->
                    IF i \in hits THEN changed(usersT[i]) ELSE usersT[i]]
    IN  IF built.threw # "none"
        THEN UserEffect(Outcome(built.threw, <<>>, <<>>, <<>>, {<<>>}, data, 0),
                        usersT)
        ELSE IF hits = {}
        THEN UserEffect(Outcome("NotFoundError", <<>>, built.setCols,
                                Append(built.values, username), {<<>>}, data, 1),
                        usersT)
        ELSE UserEffect(Outcome("none", <<>>, built.setCols,
                                Append(built.values, username),
                                {<<after[i]>> : i \in hits}, data, 1),
                        after)

UserRemove(usersT, username) ==
    LET hits == UserIndex(usersT, username)
    IN  IF hits = {}
        THEN UserEffect(Outcome("NotFoundError", <<>>, <<>>, <<username>>, {<<>>},
                                <<>>, 1),
                        usersT)
        ELSE UserEffect(Outcome("none", <<>>, <<>>, <<username>>, {<<>>}, <<>>, 1),
                        SelectSeq(usersT, LAMBDA row : row.username # username))

(***************************************************************************)
(* routes/users.js                                                         *)
(***************************************************************************)
\* The username of the token, as the text a path parameter is compared with.
Spell(username) ==
    CASE username = "u1" -> <<"u", "1">>
      [] username = "newAdmin" -> <<"n", "e", "w", "A", "d", "m", "i", "n">>
      [] OTHER -> <<>>

\* The gate of the routes on one account: a logged-in admin, or the
\* logged-in account that the path names.
EnsureLoggedInIsAdminOrUser(caller, params) ==
    /\ caller.authenticated
    /\ caller.isAdmin \/ Str(Spell(caller.username)) = Get(params, "username")

Refused(body) ==
    Outcome("UnauthorizedError", <<>>, <<>>, <<>>, {<<>>}, body, 0)

\* jsonschema.validate(body, userNewSchema).errors and
\* jsonschema.validate(body, userUpdateSchema).errors, for the fields kept.
UserUpdateErrors(body) ==
    IF HasKey(body, "firstName") /\ Get(body, "firstName").t # "string"
    THEN <<[prop |-> "firstName", rule |-> "type"]>> ELSE <<>>

UserNewErrors(body) ==
    (IF HasKey(body, "username") THEN <<>>
     ELSE <<[prop |-> "username", rule |-> "required"]>>)
    \o (IF HasKey(body, "firstName") THEN <<>>
        ELSE <<[prop |-> "firstName", rule |-> "required"]>>)
    \o UserUpdateErrors(body)

UsersPost(usersT, caller, body) ==
    LET errs == UserNewErrors(body)
    IN  IF ~EnsureLoggedInAndIsAdmin(caller) THEN UserEffect(Refused(body), usersT)
        ELSE IF Len(errs) > 0
        THEN UserEffect(Outcome("BadRequestError", errs, <<>>, <<>>, {<<>>}, body, 0),
                        usersT)
        ELSE UserRegister(usersT, body)

UsersGet(usersT, caller) ==
    IF ~EnsureLoggedInAndIsAdmin(caller) THEN UserEffect(Refused(<<>>), usersT)
    ELSE UserFindAll(usersT)

UsersGetOne(usersT, caller, path) ==
    LET params == Params("username", path)
    IN  IF ~EnsureLoggedInIsAdminOrUser(caller, params)
        THEN UserEffect(Refused(<<>>), usersT)
        ELSE UserGet(usersT, Get(params, "username"))

\* A slip that validates the body before asking who the caller is.
UsersPatchValidateFirst(usersT, caller, path, body) ==
    LET params == Params("username", path)
        errs == UserUpdateErrors(body)
    IN  IF Len(errs) > 0
        THEN UserEffect(Outcome("BadRequestError", errs, <<>>, <<>>, {<<>>}, body, 0),
                        usersT)
        ELSE IF ~EnsureLoggedInIsAdminOrUser(caller, params)
        THEN UserEffect(Refused(body), usersT)
        ELSE UserUpdate(usersT, Get(params, "username"), body)

UsersPatch(usersT, caller, path, body) ==
    LET params == Params("username", path)
        errs == UserUpdateErrors(body)
    IN  IF ~EnsureLoggedInIsAdminOrUser(caller, params)
        THEN UserEffect(Refused(body), usersT)
        ELSE IF Len(errs) > 0
        THEN UserEffect(Outcome("BadRequestError", errs, <<>>, <<>>, {<<>>}, body, 0),
                        usersT)
        ELSE UserUpdate(usersT, Get(params, "username"), body)

\* A slip that puts the admin gate on the route.
UsersDeleteAdminOnly(usersT, caller, path) ==
    LET params == Params("username", path)
        removed == UserRemove(usersT, Get(params, "username"))
    IN  IF ~EnsureLoggedInAndIsAdmin(caller) THEN UserEffect(Refused(<<>>), usersT)
        ELSE IF removed.out.threw # "none" THEN removed
        ELSE UserEffect(Outcome("none", <<>>, <<>>, removed.out.params,
                                {<<[deleted |-> Get(params, "username")]>>}, <<>>, 1),
                        removed.users)

UsersDelete(usersT, caller, path) ==
    LET params == Params("username", path)
        removed == UserRemove(usersT, Get(params, "username"))
    IN  IF ~EnsureLoggedInIsAdminOrUser(caller, params)
        THEN UserEffect(Refused(<<>>), usersT)
        ELSE IF removed.out.threw # "none" THEN removed
        ELSE UserEffect(Outcome("none", <<>>, <<>>, removed.out.params,
                                {<<[deleted |-> Get(params, "username")]>>}, <<>>, 1),
                        removed.users)

(***************************************************************************)
(* Inputs.                                                                 *)
(***************************************************************************)
\* Every object of at most max properties with keys from keys, in every
\* key order, each key k with a value from values[k].
Objects(keys, values, max) ==
    LET pairs == {[k |-> k, v |-> v] : k \in keys, v \in UNION {values[k] : k \in keys}}
        legal == {p \in pairs : p.v \in values[p.k]}
    IN  UNION {{o \in [1..n -> legal] :
                    \A i, j \in 1..n : i # j => o[i].k # o[j].k} : n \in 0..max}

HandleC1 == <<"c", "1">>
HandleC2 == <<"c", "2">>
HandleNone == <<"x">>
TitleM == <<"m">>
TitleCk == <<"c", "k">>
TitleTC == <<"t", "C">>
TitleNew == <<"n">>

Job(title, salary, equity, companyHandle) ==
    <<[k |-> "title", v |-> title], [k |-> "salary", v |-> salary],
      [k |-> "equity", v |-> equity], [k |-> "companyHandle", v |-> companyHandle]>>

JobInputs ==
    {Job(Str(TitleM), Num(2), Frac(1), Str(HandleC1)),
     Job(Str(TitleCk), Num(3), Num(0), Str(HandleC2)),
     Job(Str(TitleTC), Num(1), Frac(2), Str(HandleC1)),
     Job(Str(TitleM), Null, Null, Str(HandleC1)),
     Job(Str(TitleNew), Num(1), Num(0), Str(HandleNone))}

Company(handle, name, numEmployees) ==
    <<[k |-> "handle", v |-> handle], [k |-> "name", v |-> name],
      [k |-> "description", v |-> Str(<<"d">>)],
      [k |-> "numEmployees", v |-> numEmployees],
      [k |-> "logoUrl", v |-> Null]>>

CompanyInputs ==
    {Company(Str(HandleC1), Str(<<"C", "1">>), Num(1)),
     Company(Str(HandleC2), Str(<<"k">>), Null)}

JobFilterValues(k) ==
    CASE k = "title" -> {Str(<<>>), Str(<<"c">>), Str(TrueText)}
      [] k = "minSalary" -> {Num(2), Str(<<"2">>), Str(TrueText)}
      [] k = "hasEquity" ->
            {Bool(TRUE), Bool(FALSE), Str(TrueText), Str(FalseText), Str(<<"y">>)}
      [] OTHER -> {Str(<<"x">>)}

JobQueries ==
    LET keys == {"title", "minSalary", "hasEquity", "potato", "bogus"}
    IN  Objects(keys, [k \in keys |-> JobFilterValues(k)], MaxKeys)

CompanyFilterValues(k) ==
    CASE k = "name" -> {Str(<<>>), Str(<<"c">>)}
      [] k = "minEmployees" -> {Num(2), Str(<<"1">>)}
      [] k = "maxEmployees" -> {Num(2)}
      [] OTHER -> {Str(<<"x">>)}

CompanyQueries ==
    LET keys == {"name", "minEmployees", "maxEmployees", "potato", "bogus"}
    IN  Objects(keys, [k \in keys |-> CompanyFilterValues(k)], MaxKeys)

JobUpdateValues(k) ==
    CASE k = "title" -> {Str(TitleNew)}
      [] k = "salary" -> {Num(3), Null}
      [] k = "equity" -> {Frac(5)}
      [] k = "companyHandle" -> {Str(HandleC2)}
      [] OTHER -> {Str(<<"y">>)}

JobPayloads ==
    LET keys == {"title", "salary", "equity", "companyHandle", "cake"}
    IN  Objects(keys, [k \in keys |-> JobUpdateValues(k)], MaxFields)

\* Request bodies: the values above and some the schema refuses.
JobBodyValues(k) ==
    CASE k = "title" -> {Str(TitleNew), Num(7)}
      [] k = "salary" -> {Num(3), Frac(-5)}
      [] k = "equity" -> {Frac(5), Num(2)}
      [] k = "companyHandle" -> {Str(HandleC2)}
      [] OTHER -> {Str(<<"y">>)}

JobBodies ==
    LET keys == {"title", "salary", "equity", "companyHandle", "cake"}
    IN  Objects(keys, [k \in keys |-> JobBodyValues(k)], MaxFields)

CompanyUpdateValues(k) ==
    CASE k = "name" -> {Str(<<"k">>)}
      [] k = "numEmployees" -> {Num(2), Null}
      [] k = "logoUrl" -> {Str(<<"u">>)}
      [] OTHER -> {Str(HandleC2)}

CompanyPayloads ==
    LET keys == {"name", "numEmployees", "logoUrl", "handle"}
    IN  Objects(keys, [k \in keys |-> CompanyUpdateValues(k)], MaxFields)

SqlValues(k) ==
    CASE k = "numEmployees" -> {Num(1), Null}
      [] k = "isAdmin" -> {Bool(FALSE)}
      [] OTHER -> {Str(<<"a">>)}

SqlPayloads ==
    LET keys == {"firstName", "email", "companyHandle", "numEmployees", "isAdmin"}
    IN  Objects(keys, [k \in keys |-> SqlValues(k)], MaxFields)

NoTable == [k \in {} |-> ""]

SqlTables == {JobJsToSql, CompanyJsToSql, UserJsToSql, NoTable}

(***************************************************************************)
(* The state machine: one action per call, recorded in last.               *)
(***************************************************************************)
Record(op, caller, id, arg, jsToSql, out, rows) ==
    [op |-> op, caller |-> caller, id |-> id, arg |-> arg, jsToSql |-> jsToSql,
     threw |-> out.threw, named |-> out.named, sql |-> out.sql,
     params |-> out.params, rows |-> rows, query |-> out.query,
     stmts |-> out.stmts,
     before |-> [jobs |-> jobs, companies |-> companies, users |-> users]]

Idle ==
    Record("none", Anonymous, <<>>, NoArgument, NoTable,
           Outcome("none", <<>>, <<>>, <<>>, {<<>>}, <<>>, 0), <<>>)

Init ==
    /\ jobs = <<>>
    /\ companies = <<>>
    /\ users = <<>>
    /\ tasks = <<>>
    /\ updates = 0
    /\ last = Idle

\* A call starts when the previous one has returned; it runs to its end
\* and leaves its outcome in last.
Effects(op, caller, id, arg, jsToSql, e) ==
    /\ last.op = "none"
    /\ tasks = <<>>
    /\ jobs' = e.jobs
    /\ companies' = e.companies
    /\ users' = users
    /\ tasks' = tasks
    /\ \E rows \in e.out.rowsets :
          last' = Record(op, caller, id, arg, jsToSql, e.out, rows)

\* The caller takes the outcome.
Return ==
    /\ last.op # "none"
    /\ last' = Idle
    /\ UNCHANGED <<jobs, companies, users, updates, tasks>>

SqlForPartialUpdateCall ==
    /\ \E data \in SqlPayloads, jsToSql \in SqlTables :
          LET built == sqlForPartialUpdate(data, jsToSql)
          IN  Effects("sqlForPartialUpdate", Anonymous, <<>>, Obj(data), jsToSql,
                      Effect(Outcome(built.threw, <<>>, built.setCols, built.values,
                                     {<<>>}, data, 0),
                             jobs, companies))
    /\ UNCHANGED updates

JobCreateCall ==
    /\ Len(jobs) < MaxJobs
    /\ \E data \in JobInputs :
          Effects("Job.create", Anonymous, <<>>, Obj(data), NoTable,
                  JobCreate(jobs, companies, data))
    /\ UNCHANGED updates

CompanyCreateCall ==
    /\ Len(companies) < MaxCompanies
    /\ \E data \in CompanyInputs :
          Effects("Company.create", Anonymous, <<>>, Obj(data), NoTable,
                  CompanyCreate(jobs, companies, data))
    /\ UNCHANGED updates

JobFindAllCall ==
    /\ \E arg \in {NoArgument} \cup {Obj(q) : q \in JobQueries} :
          Effects("Job.findAll", Anonymous, <<>>, arg, NoTable,
                  Effect(JobFindAll(jobs, arg), jobs, companies))
    /\ UNCHANGED updates

CompanyFindAllCall ==
    /\ \E arg \in {NoArgument} \cup {Obj(q) : q \in CompanyQueries} :
          Effects("Company.findAll", Anonymous, <<>>, arg, NoTable,
                  Effect(CompanyFindAll(companies, arg), jobs, companies))
    /\ UNCHANGED updates

\* The number of updates that reached a row is capped by MaxUpdates.
Counted ==
    updates' = IF <<jobs', companies'>> # <<jobs, companies>>
               THEN updates + 1 ELSE updates

JobUpdateCall ==
    /\ updates < MaxUpdates
    /\ \E title \in {TitleM, TitleNew}, data \in JobPayloads :
          Effects("Job.update", Anonymous, title, Obj(data), JobJsToSql,
                  JobUpdate(jobs, companies, title, data))
    /\ Counted

CompanyUpdateCall ==
    /\ updates < MaxUpdates
    /\ \E handle \in {HandleC1, HandleC2}, data \in CompanyPayloads :
          Effects("Company.update", Anonymous, handle, Obj(data), CompanyJsToSql,
                  CompanyUpdate(jobs, companies, handle, data))
    /\ Counted

JobsPatchCall ==
    /\ updates < MaxUpdates
    /\ \E caller \in Callers, title \in {TitleM, TitleNew}, body \in JobBodies :
          Effects("PATCH /jobs/:title", caller, title, Obj(body), JobJsToSql,
                  JobsPatch(jobs, companies, caller, title, body))
    /\ Counted

\* The partial-update builder on its own.
NextSql == SqlForPartialUpdateCall \/ Return

SpecSql == Init /\ [][NextSql]_vars

\* Storage filled by create, read by findAll.
NextFind ==
    \/ JobCreateCall
    \/ CompanyCreateCall
    \/ JobFindAllCall
    \/ CompanyFindAllCall
    \/ Return

SpecFind == Init /\ [][NextFind]_vars

\* Storage filled by create, changed by update and by PATCH /jobs/:title.
NextUpdate ==
    \/ JobCreateCall
    \/ CompanyCreateCall
    \/ JobUpdateCall
    \/ CompanyUpdateCall
    \/ JobsPatchCall
    \/ Return

SpecUpdate == Init /\ [][NextUpdate]_vars

\* Identifiers given to get and remove: stored ones and one never stored.
JobTitles == {TitleM, TitleCk, TitleNew}

CompanyHandles == {HandleC1, HandleC2, HandleNone}

JobGetCall ==
    /\ \E title \in JobTitles :
          Effects("Job.get", Anonymous, title, NoArgument, NoTable,
                  Effect(JobGet(jobs, Str(title)), jobs, companies))
    /\ UNCHANGED updates

CompanyGetCall ==
    /\ \E handle \in CompanyHandles :
          Effects("Company.get", Anonymous, handle, NoArgument, NoTable,
                  Effect(CompanyGet(companies, Str(handle)), jobs, companies))
    /\ UNCHANGED updates

JobRemoveCall ==
    /\ \E title \in JobTitles :
          Effects("Job.remove", Anonymous, title, NoArgument, NoTable,
                  JobRemove(jobs, companies, Str(title)))
    /\ UNCHANGED updates

CompanyRemoveCall ==
    /\ \E handle \in CompanyHandles :
          Effects("Company.remove", Anonymous, handle, NoArgument, NoTable,
                  CompanyRemove(jobs, companies, Str(handle)))
    /\ UNCHANGED updates

\* Storage filled by create, read by get, emptied by remove.
NextRepo ==
    \/ JobCreateCall
    \/ CompanyCreateCall
    \/ JobGetCall
    \/ CompanyGetCall
    \/ JobRemoveCall
    \/ CompanyRemoveCall
    \/ Return

SpecRepo == Init /\ [][NextRepo]_vars

\* Bodies sent to POST /jobs: complete ones and one with fields missing.
JobPostBodies ==
    JobInputs \cup {<<[k |-> "title", v |-> Str(TitleNew)], [k |-> "salary", v |-> Num(1)]>>}

\* Query strings of GET /jobs: at most one key, every value a string.
JobRouteQueries ==
    {q \in JobQueries : Len(q) <= 1 /\ \A i \in 1..Len(q) : q[i].v.t = "string"}

JobsPostCall ==
    /\ Len(jobs) < MaxJobs
    /\ \E caller \in Callers, body \in JobPostBodies :
          Effects("POST /jobs", caller, <<>>, Obj(body), NoTable,
                  JobsPost(jobs, companies, caller, body))
    /\ UNCHANGED updates

JobsGetCall ==
    /\ \E caller \in Callers, query \in JobRouteQueries :
          Effects("GET /jobs", caller, <<>>, Obj(query), NoTable,
                  JobsGet(jobs, companies, caller, query))
    /\ UNCHANGED updates

JobsGetOneCall ==
    /\ \E caller \in Callers, title \in JobTitles :
          Effects("GET /jobs/:title", caller, title, NoArgument, NoTable,
                  JobsGetOne(jobs, companies, caller, title))
    /\ UNCHANGED updates

JobsDeleteCall ==
    /\ \E caller \in Callers, title \in JobTitles :
          Effects("DELETE /jobs/:title", caller, title, NoArgument, NoTable,
                  JobsDelete(jobs, companies, caller, title))
    /\ UNCHANGED updates

\* The jobs router over storage that create has filled.
NextJobsRoutes ==
    \/ JobCreateCall
    \/ CompanyCreateCall
    \/ JobsPostCall
    \/ JobsGetCall
    \/ JobsGetOneCall
    \/ JobsPatchCall
    \/ JobsDeleteCall
    \/ Return

SpecJobsRoutes == Init /\ [][NextJobsRoutes]_vars

\* The accounts the tests name, and what the users router is sent.
MaxUsers == 2

Usernames == {<<"u", "1">>, <<"u", "2">>}

UserNewBodies ==
    {<<[k |-> "username", v |-> Str(u)], [k |-> "firstName", v |-> Str(<<"a">>)]>> :
        u \in Usernames}
    \cup {<<[k |-> "username", v |-> Str(<<"u", "2">>)]>>}

UserPatchBodies ==
    {<<>>, <<[k |-> "firstName", v |-> Str(<<"b">>)]>>,
     <<[k |-> "firstName", v |-> Num(7)]>>}

\* A call of the users router: it leaves jobs and companies alone.
UserEffects(op, caller, id, arg, e) ==
    /\ last.op = "none"
    /\ users' = e.users
    /\ \E rows \in e.out.rowsets :
          last' = Record(op, caller, id, arg, UserJsToSql, e.out, rows)
    /\ UNCHANGED <<jobs, companies, updates, tasks>>

UsersPostCall ==
    /\ Len(users) < MaxUsers
    /\ \E caller \in Callers, body \in UserNewBodies :
          UserEffects("POST /users", caller, <<>>, Obj(body),
                      UsersPost(users, caller, body))

UsersGetCall ==
    \E caller \in Callers :
        UserEffects("GET /users", caller, <<>>, NoArgument, UsersGet(users, caller))

UsersGetOneCall ==
    \E caller \in Callers, username \in Usernames :
        UserEffects("GET /users/:username", caller, username, NoArgument,
                    UsersGetOne(users, caller, username))

UsersPatchCall ==
    \E caller \in Callers, username \in Usernames, body \in UserPatchBodies :
        UserEffects("PATCH /users/:username", caller, username, Obj(body),
                    UsersPatch(users, caller, username, body))

UsersDeleteCall ==
    \E caller \in Callers, username \in Usernames :
        UserEffects("DELETE /users/:username", caller, username, NoArgument,
                    UsersDelete(users, caller, username))

\* The gated routes of both routers, over storage their POST routes fill.
NextGate ==
    \/ CompanyCreateCall
    \/ JobsPostCall
    \/ JobsPatchCall
    \/ JobsDeleteCall
    \/ UsersPostCall
    \/ UsersGetCall
    \/ UsersGetOneCall
    \/ UsersPatchCall
    \/ UsersDeleteCall
    \/ Return

SpecGate == Init /\ [][NextGate]_vars

\* Calls in flight together.  Node runs a call up to its next await on
\* db.query and then lets another call run, so a call is a sequence of
\* steps with one statement each, and the steps of two calls interleave.
\* tasks holds the calls in flight: what each was asked, how far it is (pc)
\* and how it ended.
Task(op, id, data) == [op |-> op, id |-> id, data |-> data, pc |-> "start",
                       threw |-> "none"]

Done(i, threw) == tasks' = [tasks EXCEPT ![i].pc = "done", ![i].threw = threw]

Stored(table, col, id) == \E r \in 1..Len(table) : table[r][col] = Str(id)

\* An update and a remove of one stored position, or of one stored
\* company, are called together.
ForkUpdateRemove ==
    /\ last.op = "none"
    /\ tasks = <<>>
    /\ updates < MaxUpdates
    /\ updates' = updates + 1
    /\ \/ \E title \in JobTitles, data \in JobPayloads :
             /\ Stored(jobs, "title", title)
             /\ tasks' = <<Task("Job.update", title, data),
                           Task("Job.remove", title, <<>>)>>
       \/ \E handle \in CompanyHandles, data \in CompanyPayloads :
             /\ Stored(companies, "handle", handle)
             /\ tasks' = <<Task("Company.update", handle, data),
                           Task("Company.remove", handle, <<>>)>>
    /\ UNCHANGED <<jobs, companies, users, last>>

\* Company.create is called twice together with one handle.
ForkCreateCreate ==
    /\ last.op = "none"
    /\ tasks = <<>>
    /\ updates < MaxUpdates
    /\ updates' = updates + 1
    /\ Len(companies) < MaxCompanies
    /\ \E data \in CompanyInputs :
          tasks' = <<Task("Company.create", Get(data, "handle").s, data),
                     Task("Company.create", Get(data, "handle").s, data)>>
    /\ UNCHANGED <<jobs, companies, users, last>>

\* update and remove hold one statement each: the call runs to its end in
\* one step.
StatementStep ==
    \E i \in 1..Len(tasks) :
        LET task == tasks[i]
            e == CASE task.op = "Job.update" ->
                        JobUpdate(jobs, companies, task.id, task.data)
                   [] task.op = "Job.remove" ->
                        JobRemove(jobs, companies, Str(task.id))
                   [] task.op = "Company.update" ->
                        CompanyUpdate(jobs, companies, task.id, task.data)
                   [] OTHER -> CompanyRemove(jobs, companies, Str(task.id))
        IN  /\ task.pc = "start"
            /\ task.op # "Company.create"
            /\ jobs' = e.jobs
            /\ companies' = e.companies
            /\ Done(i, e.out.threw)
            /\ UNCHANGED <<users, updates, last>>

\* Company.create up to its second await: the SELECT has answered.
CreateCheckStep ==
    \E i \in 1..Len(tasks) :
        LET task == tasks[i]
            duplicateCheck == CompanyDuplicateCheck(companies, task.data)
        IN  /\ task.pc = "start"
            /\ task.op = "Company.create"
            /\ IF Len(duplicateCheck.rows) > 0
               THEN Done(i, "BadRequestError")
               ELSE tasks' = [tasks EXCEPT ![i].pc = "checked"]
            /\ UNCHANGED <<jobs, companies, users, updates, last>>

\* Company.create from its second await: the INSERT.
CreateInsertStep ==
    \E i \in 1..Len(tasks) :
        LET task == tasks[i]
            e == CompanyInsert(jobs, companies, task.data)
        IN  /\ task.pc = "checked"
            /\ jobs' = e.jobs
            /\ companies' = e.companies
            /\ Done(i, e.out.threw)
            /\ UNCHANGED <<users, updates, last>>

AllDone == Len(tasks) > 0 /\ \A i \in 1..Len(tasks) : tasks[i].pc = "done"

\* Both callers have their outcome.
Settle ==
    /\ AllDone
    /\ tasks' = <<>>
    /\ UNCHANGED <<jobs, companies, users, updates, last>>

\* Storage filled by create, then calls that run together.
NextTasks ==
    \/ JobCreateCall
    \/ CompanyCreateCall
    \/ Return
    \/ ForkUpdateRemove
    \/ ForkCreateCreate
    \/ StatementStep
    \/ CreateCheckStep
    \/ CreateInsertStep
    \/ Settle

SpecTasks == Init /\ [][NextTasks]_vars

(***************************************************************************)
(* Properties.                                                             *)
(***************************************************************************)
JobFilterKeys == {"title", "minSalary", "hasEquity"}

CompanyFilterKeys == {"name", "minEmployees", "maxEmployees"}

ArgKeys == Range(ObjectKeys(last.arg.o))

StoredTitles == {jobs[i].title.s : i \in 1..Len(jobs)}

Count(seq, x) == Cardinality({i \in 1..Len(seq) : seq[i] = x})

\* The two sequences hold the same rows, each as often.
SameRows(a, b) ==
    /\ Len(a) = Len(b)
    /\ \A x \in Range(a) \cup Range(b) : Count(a, x) = Count(b, x)

Ascending(rows, field) ==
    \A i \in 1..Len(rows) :
        i < Len(rows) => TextLeq(rows[i][field].s, rows[i + 1][field].s)

\* C1: for a non-empty dataToUpdate and any jsToSql, sqlForPartialUpdate
\* returns as many placeholders as values, numbered 1, 2, ..., n in order;
\* the i-th fragment names jsToSql[key] if the table has the i-th key, else
\* the key itself, and values[i] is that key's value.
C1_SetClauseMatchesValues ==
    (last.op = "sqlForPartialUpdate" /\ Len(last.arg.o) > 0) =>
        LET data == last.arg.o
            keys == ObjectKeys(data)
            phs == Placeholders(last.sql)
        IN  /\ last.threw = "none"
            /\ Len(phs) = Len(last.params)
            /\ Len(phs) = Len(keys)
            /\ Len(last.sql) = 4 * Len(keys) - 1
            /\ \A i \in 1..Len(keys) :
                  /\ phs[i].n = i
                  /\ last.sql[4 * i - 1] = Placeholder(i)
                  /\ last.sql[4 * i - 3] =
                        QuotedId(IF keys[i] \in DOMAIN last.jsToSql
                                 THEN last.jsToSql[keys[i]] ELSE keys[i])
                  /\ last.params[i] = data[i].v

\* C1 witness: a two-field payload with one translated and one untranslated key.
C1_Witness ==
    /\ last.op = "sqlForPartialUpdate"
    /\ Len(last.arg.o) = 2
    /\ last.arg.o[1].k \notin DOMAIN last.jsToSql
    /\ last.arg.o[2].k \in DOMAIN last.jsToSql
    /\ Len(last.params) = 2

\* C2: sqlForPartialUpdate on an empty mapping fails with BadRequestError
\* for any translation table, so Job.update(title, {}) and
\* Company.update(handle, {}) fail with BadRequest without issuing any
\* storage statement and leave storage unchanged, whether or not the
\* target row exists.
C2_EmptyUpdateIsBadRequest ==
    /\ \A jsToSql \in SqlTables :
          sqlForPartialUpdate(<<>>, jsToSql).threw = "BadRequestError"
    /\ (last.op \in {"Job.update", "Company.update"} /\ Len(last.arg.o) = 0) =>
          /\ last.threw = "BadRequestError"
          /\ last.stmts = 0
          /\ jobs = last.before.jobs
          /\ companies = last.before.companies

\* C2 witness: Job.update with an empty payload on a stored title.
C2_Witness ==
    /\ last.op = "Job.update"
    /\ Len(last.arg.o) = 0
    /\ last.id \in StoredTitles
    /\ last.threw = "BadRequestError"

\* C3: for every update payload that passes the jobUpdate schema and
\* reaches Job.update, every column named in the SET clause is a column of
\* the jobs table (title, salary, equity, company_handle).
C3_OnlyJobColumnsInSetClause ==
    (/\ last.op = "PATCH /jobs/:title"
     /\ EnsureLoggedInAndIsAdmin(last.caller)
     /\ Len(JobUpdateErrors(last.arg.o)) = 0) =>
        \A i \in 1..Len(last.sql) :
            last.sql[i].k = "qid" => last.sql[i].w \in DOMAIN JobColumns

\* C4: a filter mapping with a key outside {title, minSalary, hasEquity}
\* makes Job.findAll fail with BadRequestError before any query is issued,
\* and the message names every offending key.
C4_BadKeysAllNamed ==
    (last.op = "Job.findAll" /\ ArgKeys \ JobFilterKeys # {}) =>
        /\ last.threw = "BadRequestError"
        /\ last.stmts = 0
        /\ Range(last.named) = ArgKeys \ JobFilterKeys

\* C4 witness: a mapping with two offending keys.
C4_Witness ==
    /\ last.op = "Job.findAll"
    /\ Cardinality(ArgKeys \ JobFilterKeys) = 2
    /\ last.threw = "BadRequestError"

\* C5: for every filter mapping with keys among {title, minSalary,
\* hasEquity} and any values, the WHERE clause Job.findAll builds has as
\* many placeholders as values are passed to db.query.
C5_PlaceholdersMatchValues ==
    (last.op = "Job.findAll" /\ ArgKeys \subseteq JobFilterKeys) =>
        Len(Placeholders(last.sql)) = Len(last.params)

\* What the filters ask for: the title contains the text without regard to
\* case, the salary is at least minSalary, and the equity is above zero for
\* a truthy hasEquity, zero for false or 'false'.
ContainsText(text, part) ==
    \E i \in 0..(Len(text) - Len(part)) :
        \A j \in 1..Len(part) : LowerCase(text[i + j]) = LowerCase(part[j])

NumberOf(v) == IF v.t = "number" THEN v.n ELSE ParseNat(v.s) * Tenth

Wanted(row, query) ==
    /\ HasKey(query, "title") =>
          ContainsText(row.title.s, Get(query, "title").s)
    /\ HasKey(query, "minSalary") =>
          row.salary.t = "number" /\ row.salary.n >= NumberOf(Get(query, "minSalary"))
    /\ HasKey(query, "hasEquity") =>
          /\ row.equity.t = "number"
          /\ IF Get(query, "hasEquity") \in {Bool(FALSE), Str(FalseText)}
             THEN row.equity.n = 0 ELSE row.equity.n > 0

\* Filter values of the expected kinds: a non-empty title text, a minSalary
\* that is a whole number or its digits, a hasEquity flag.
WellTyped(query) ==
    /\ HasKey(query, "title") =>
          Get(query, "title").t = "string" /\ Len(Get(query, "title").s) > 0
    /\ HasKey(query, "minSalary") =>
          \/ IsInteger(Get(query, "minSalary"))
          \/ Get(query, "minSalary").t = "string" /\ IsNatText(Get(query, "minSalary").s)
    /\ HasKey(query, "hasEquity") => Get(query, "hasEquity") \in BooleanLike

\* C6: for every filter mapping with keys among {title, minSalary,
\* hasEquity}, in whatever order the keys occur, Job.findAll returns exactly
\* the stored positions that satisfy every supplied filter.
C6_FindAllReturnsMatches ==
    (/\ last.op = "Job.findAll"
     /\ ArgKeys \subseteq JobFilterKeys
     /\ WellTyped(last.arg.o)) =>
        /\ last.threw = "none"
        /\ SameRows(last.rows,
                    ShapeJobs(SelectSeq(jobs, LAMBDA row : Wanted(row, last.arg.o))))

\* The parameter bound to the placeholder that follows ILIKE.
ILikeBound ==
    LET i == CHOOSE j \in 1..Len(last.sql) : last.sql[j] = Word("ILIKE")
    IN  last.params[last.sql[i + 1].n]

\* C7: for every title filter value given to Job.findAll and every name
\* filter value given to Company.findAll, the empty string included, the
\* value bound to the ILIKE placeholder is the given value with one '%' on
\* each side, and the clause holds only the placeholder.
C7_SubstringValueWrappedOnce ==
    (/\ last.op \in {"Job.findAll", "Company.findAll"}
     /\ Len(last.arg.o) = 1
     /\ last.arg.o[1].k = (IF last.op = "Job.findAll" THEN "title" ELSE "name")
     /\ last.arg.o[1].v.t = "string") =>
        /\ last.stmts = 1
        /\ Len(last.sql) = 4
        /\ last.sql[4].k = "ph"
        /\ last.sql[4].n \in 1..Len(last.params)
        /\ ILikeBound = Str(<<"%">> \o last.arg.o[1].v.s \o <<"%">>)

\* C8: Job.findAll with an empty filter mapping or no argument issues a
\* query with no WHERE keyword and returns every stored position, ordered
\* by title ascending; for any recognized filter mapping the rows returned
\* are in ascending title order too.
C8_FindAllOrderedByTitle ==
    /\ (last.op = "Job.findAll" /\ Len(last.arg.o) = 0) =>
          /\ last.threw = "none"
          /\ last.stmts = 1
          /\ Word("WHERE") \notin Range(last.sql)
          /\ SameRows(last.rows, ShapeJobs(jobs))
    /\ (last.op = "Job.findAll" /\ ArgKeys \subseteq JobFilterKeys) =>
          Ascending(last.rows, "title")

\* C8 witness: no argument, two positions stored out of title order.
C8_Witness ==
    /\ last.op = "Job.findAll"
    /\ last.arg.t = "undefined"
    /\ Len(jobs) = 2
    /\ ~TextLeq(jobs[1].title.s, jobs[2].title.s)
    /\ Len(last.rows) = 2

\* C9: Company.findAll with an empty filter mapping {} never issues a query
\* whose text has WHERE followed by no condition: it omits the WHERE
\* keyword and returns every stored company ordered by name.
C9_CompanyFindAllEmptyMapping ==
    (last.op = "Company.findAll" /\ last.arg.t = "object" /\ Len(last.arg.o) = 0) =>
        /\ last.threw = "none"
        /\ Word("WHERE") \notin Range(last.sql)
        /\ SameRows(last.rows, ShapeCompanies(companies))
        /\ Ascending(last.rows, "name")

\* C10: Company.findAll called with no argument returns every stored
\* company ordered by name and does not fail.
C10_CompanyFindAllNoArgument ==
    (last.op = "Company.findAll" /\ last.arg.t = "undefined") =>
        /\ last.threw = "none"
        /\ SameRows(last.rows, ShapeCompanies(companies))
        /\ Ascending(last.rows, "name")

StoredHandles(companiesT) == {companiesT[i].handle : i \in 1..Len(companiesT)}

\* C11: Company.create with a handle that names a stored company fails with
\* BadRequestError and leaves storage unchanged; with a handle not yet
\* stored it inserts exactly one row and returns {handle, name,
\* description, numEmployees, logoUrl} equal to the inputs.
C11_CompanyCreateCollision ==
    (last.op = "Company.create") =>
        LET data == last.arg.o
        IN  IF Get(data, "handle") \in StoredHandles(last.before.companies)
            THEN /\ last.threw = "BadRequestError"
                 /\ companies = last.before.companies
                 /\ jobs = last.before.jobs
            ELSE /\ last.threw = "none"
                 /\ Len(companies) = Len(last.before.companies) + 1
                 /\ SubSeq(companies, 1, Len(last.before.companies))
                        = last.before.companies
                 /\ companies[Len(companies)].handle = Get(data, "handle")
                 /\ jobs = last.before.jobs
                 /\ Len(last.rows) = 1
                 /\ last.rows[1] =
                        [handle |-> Get(data, "handle"), name |-> Get(data, "name"),
                         description |-> Get(data, "description"),
                         numEmployees |-> Get(data, "numEmployees"),
                         logoUrl |-> Get(data, "logoUrl")]

\* C11 witness: a create whose handle is already stored is refused.
C11_Witness ==
    /\ last.op = "Company.create"
    /\ Get(last.arg.o, "handle") \in StoredHandles(last.before.companies)
    /\ last.threw = "BadRequestError"

\* The identifiers stored before the call that last names.
TitlesBefore == {last.before.jobs[i].title.s : i \in 1..Len(last.before.jobs)}

HandlesBefore ==
    {last.before.companies[i].handle.s : i \in 1..Len(last.before.companies)}

\* C12: Job.update and Company.update with a non-empty payload and an
\* identifier that matches no stored row fail with NotFoundError, and
\* storage is exactly as it was before the call.
C12_UpdateMissingIsNotFound ==
    /\ (/\ last.op = "Job.update"
        /\ Len(last.arg.o) > 0
        /\ last.id \notin TitlesBefore) =>
            /\ last.threw = "NotFoundError"
            /\ jobs = last.before.jobs
            /\ companies = last.before.companies
    /\ (/\ last.op = "Company.update"
        /\ Len(last.arg.o) > 0
        /\ last.id \notin HandlesBefore) =>
            /\ last.threw = "NotFoundError"
            /\ jobs = last.before.jobs
            /\ companies = last.before.companies

\* The stored row with the fields named in data replaced by their values.
Replaced(row, data) ==
    [title |-> IF HasKey(data, "title") THEN Get(data, "title") ELSE row.title,
     salary |-> IF HasKey(data, "salary") THEN Get(data, "salary") ELSE row.salary,
     equity |-> IF HasKey(data, "equity") THEN Get(data, "equity") ELSE row.equity,
     company_handle |-> IF HasKey(data, "companyHandle")
                        THEN Get(data, "companyHandle") ELSE row.company_handle]

JobFields == {"title", "salary", "equity", "companyHandle"}

\* C13: Job.update(title, data) on an existing position returns the row in
\* which every field named in data has its new value (null included) and
\* every other field its prior value; a Job.get that follows returns the
\* same row, and no other position is changed.
C13_UpdateChangesOnlyNamedFields ==
    (/\ last.op = "Job.update"
     /\ ArgKeys \subseteq JobFields
     /\ last.threw = "none") =>
        LET data == last.arg.o
            old == last.before.jobs
            newTitle == IF HasKey(data, "title") THEN Get(data, "title")
                        ELSE Str(last.id)
        IN  /\ Len(last.rows) = 1
            /\ Len(jobs) = Len(old)
            /\ \E i \in 1..Len(old) :
                  /\ old[i].title = Str(last.id)
                  /\ jobs[i] = Replaced(old[i], data)
                  /\ last.rows[1] = ShapeJob(jobs[i])
                  /\ \A j \in 1..Len(old) : j # i => jobs[j] = old[j]
            /\ JobGet(jobs, newTitle).threw = "none"
            /\ JobGet(jobs, newTitle).rowsets = {last.rows}

\* C14: Job.remove and Company.remove on an identifier with a stored row
\* delete that row and return no payload; on an identifier with no stored
\* row they fail with NotFoundError and change nothing; removing the same
\* identifier again fails with NotFoundError.
C14_RemoveThenNotFound ==
    /\ (last.op = "Job.remove") =>
          /\ IF last.id \in TitlesBefore
             THEN /\ last.threw = "none"
                  /\ last.rows = <<>>
                  /\ jobs = SelectSeq(last.before.jobs,
                                      LAMBDA row : row.title # Str(last.id))
                  /\ companies = last.before.companies
             ELSE /\ last.threw = "NotFoundError"
                  /\ jobs = last.before.jobs
                  /\ companies = last.before.companies
          /\ JobRemove(jobs, companies, Str(last.id)).out.threw = "NotFoundError"
          /\ JobRemove(jobs, companies, Str(last.id)).jobs = jobs
    /\ (last.op = "Company.remove") =>
          /\ IF last.id \in HandlesBefore
             THEN /\ last.threw = "none"
                  /\ last.rows = <<>>
                  /\ companies = SelectSeq(last.before.companies,
                                           LAMBDA row : row.handle # Str(last.id))
             ELSE /\ last.threw = "NotFoundError"
                  /\ jobs = last.before.jobs
                  /\ companies = last.before.companies
          /\ CompanyRemove(jobs, companies, Str(last.id)).out.threw = "NotFoundError"
          /\ CompanyRemove(jobs, companies, Str(last.id)).companies = companies

\* C14 witness: a stored position is removed and another one stays.
C14_Witness ==
    /\ last.op = "Job.remove"
    /\ last.id \in TitlesBefore
    /\ last.threw = "none"
    /\ Len(last.before.jobs) = 2
    /\ Len(jobs) = 1

\* C15: DELETE /jobs/<title> from an authenticated admin, where <title>
\* names a stored position, removes that position and responds with
\* {deleted: <title>}: the identifier of the path is the one passed to
\* Job.remove and echoed.
C15_DeleteRouteRemovesPosition ==
    (/\ last.op = "DELETE /jobs/:title"
     /\ EnsureLoggedInAndIsAdmin(last.caller)
     /\ last.id \in TitlesBefore) =>
        /\ last.threw = "none"
        /\ last.params = <<Str(last.id)>>
        /\ \A i \in 1..Len(jobs) : jobs[i].title # Str(last.id)
        /\ last.rows = <<[deleted |-> Str(last.id)]>>

\* C16: after Job.create(fields) or Company.create(fields) succeeds, a get
\* by the created identifier that follows returns a value equal to the one
\* create returned.
C16_CreateThenGetRoundTrip ==
    /\ (last.op = "Job.create" /\ last.threw = "none") =>
          LET got == JobGet(jobs, Get(last.arg.o, "title"))
          IN  got.threw = "none" /\ got.rowsets = {last.rows}
    /\ (last.op = "Company.create" /\ last.threw = "none") =>
          LET got == CompanyGet(companies, Get(last.arg.o, "handle"))
          IN  got.threw = "none" /\ got.rowsets = {last.rows}

\* C17: Job.create checks that companyHandle names a stored company: when
\* none has that handle, create fails with NotFoundError or BadRequestError
\* and inserts no position; in every reachable state each stored
\* position's company handle names a stored company.
C17_CreateValidatesCompany ==
    /\ (/\ last.op = "Job.create"
        /\ Get(last.arg.o, "companyHandle")
              \notin StoredHandles(last.before.companies)) =>
            /\ last.threw \in {"NotFoundError", "BadRequestError"}
            /\ jobs = last.before.jobs
    /\ \A i \in 1..Len(jobs) : jobs[i].company_handle \in StoredHandles(companies)

GatedJobRoutes == {"POST /jobs", "PATCH /jobs/:title", "DELETE /jobs/:title"}

OpenJobRoutes == {"GET /jobs", "GET /jobs/:title"}

\* C18: POST /jobs, PATCH /jobs/:title and DELETE /jobs/:title from a
\* caller who is anonymous, or authenticated but not admin, end in
\* Unauthorized and leave storage unchanged; GET /jobs and GET /jobs/:title
\* succeed for an anonymous caller.
C18_JobRoutesGate ==
    /\ (/\ last.op \in GatedJobRoutes
        /\ ~(last.caller.authenticated /\ last.caller.isAdmin)) =>
            /\ last.threw = "UnauthorizedError"
            /\ last.stmts = 0
            /\ jobs = last.before.jobs
            /\ companies = last.before.companies
    /\ (last.op \in OpenJobRoutes) => last.threw # "UnauthorizedError"
    /\ (/\ last.op = "GET /jobs"
        /\ last.caller = Anonymous
        /\ Len(last.arg.o) = 0) =>
            /\ last.threw = "none"
            /\ SameRows(last.rows, ShapeJobs(jobs))
    /\ (/\ last.op = "GET /jobs/:title"
        /\ last.caller = Anonymous
        /\ last.id \in TitlesBefore) =>
            /\ last.threw = "none"
            /\ Len(last.rows) = 1
            /\ last.rows[1].title = Str(last.id)

\* C18 witness: a logged-in caller who is no admin is refused a valid
\* PATCH of a stored position.
C18_Witness ==
    /\ last.op = "PATCH /jobs/:title"
    /\ last.caller = User
    /\ last.id \in TitlesBefore
    /\ Len(last.arg.o) > 0
    /\ Len(JobUpdateErrors(last.arg.o)) = 0
    /\ last.threw = "UnauthorizedError"

UsernamesBefore == {last.before.users[i].username.s : i \in 1..Len(last.before.users)}

AdminRoutes == GatedJobRoutes \cup {"POST /users", "GET /users"}

AccountRoutes ==
    {"GET /users/:username", "PATCH /users/:username", "DELETE /users/:username"}

\* The caller of the last request is one the route lets through.
LetThrough ==
    /\ last.caller.authenticated
    /\ \/ last.caller.isAdmin
       \/ last.op \in AccountRoutes /\ Spell(last.caller.username) = last.id

StorageUntouched ==
    /\ last.stmts = 0
    /\ jobs = last.before.jobs
    /\ companies = last.before.companies
    /\ users = last.before.users

\* C19: on every gated route of the jobs and users routers the caller is
\* checked before the body is validated and before any model call: a
\* request from a caller the gate refuses ends in Unauthorized, never in
\* NotFound or BadRequest, also when it names a target that is not stored
\* or carries a body the schema refuses, and no statement reaches storage.
C19_GateComesFirst ==
    (/\ last.op \in AdminRoutes \cup AccountRoutes
     /\ ~LetThrough) =>
        /\ last.threw = "UnauthorizedError"
        /\ last.threw \notin {"NotFoundError", "BadRequestError"}
        /\ Len(last.named) = 0
        /\ StorageUntouched

\* C19 witness: a logged-in caller who is no admin sends PATCH for an
\* account that is not his and is not stored, with a first name that is a
\* number, and is refused as unauthorized.
C19_Witness ==
    /\ last.op = "PATCH /users/:username"
    /\ last.caller = User
    /\ last.id \notin UsernamesBefore
    /\ last.id # Spell(User.username)
    /\ Len(UserUpdateErrors(last.arg.o)) > 0
    /\ last.threw = "UnauthorizedError"
    /\ last.stmts = 0

\* C20: GET, PATCH and DELETE /users/:username are let through exactly when
\* the caller is logged in and is an admin or the account the path names;
\* every other caller gets Unauthorized and the accounts stay as they were.
\* POST /users and GET /users are let through exactly for a logged-in admin.
C20_AccountRoutesAdminOrSelf ==
    /\ (last.op \in AccountRoutes) =>
            /\ (last.threw # "UnauthorizedError") <=>
                    /\ last.caller.authenticated
                    /\ last.caller.isAdmin \/ Spell(last.caller.username) = last.id
            /\ (last.threw = "UnauthorizedError") => users = last.before.users
    /\ (last.op \in {"POST /users", "GET /users"}) =>
            /\ (last.threw # "UnauthorizedError") <=>
                    (last.caller.authenticated /\ last.caller.isAdmin)
            /\ (last.threw = "UnauthorizedError") => users = last.before.users

\* C20 witness: a logged-in caller who is no admin deletes his own stored
\* account, and it is gone.
C20_Witness ==
    /\ last.op = "DELETE /users/:username"
    /\ last.caller = User
    /\ last.id = Spell(User.username)
    /\ last.id \in UsernamesBefore
    /\ last.threw = "none"
    /\ Len(users) = Len(last.before.users) - 1

\* The rules of the update schema that the body of the last request breaks.
Broken ==
    LET body == last.arg.o
        title == Get(body, "title")
        salary == Get(body, "salary")
        equity == Get(body, "equity")
        Rule(prop, rule, broken) == IF broken THEN {<<prop, rule>>} ELSE {}
    IN  Rule("title", "type", HasKey(body, "title") /\ title.t # "string")
        \cup Rule("salary", "type", HasKey(body, "salary") /\ ~IsInteger(salary))
        \cup Rule("salary", "minimum",
                  HasKey(body, "salary") /\ salary.t = "number" /\ salary.n < 0)
        \cup Rule("equity", "minimum",
                  HasKey(body, "equity") /\ equity.t = "number" /\ equity.n < 0)
        \cup Rule("equity", "maximum",
                  HasKey(body, "equity") /\ equity.t = "number" /\ equity.n > Tenth)

\* C21: PATCH /jobs/:title from an admin with a body that breaks the update
\* schema (title no string, salary no integer or below 0, equity below 0 or
\* above 1) ends in BadRequest before any statement is issued: storage is
\* unchanged, also when the title names no stored position, and the error
\* carries every violation, not only the first.
C21_PatchBadBodyIsBadRequest ==
    (/\ last.op = "PATCH /jobs/:title"
     /\ last.caller = Admin
     /\ Broken # {}) =>
        /\ last.threw = "BadRequestError"
        /\ last.stmts = 0
        /\ jobs = last.before.jobs
        /\ companies = last.before.companies
        /\ Broken \subseteq {<<last.named[i].prop, last.named[i].rule>> :
                                i \in 1..Len(last.named)}

\* C21 witness: an admin sends two violations for a title that is not
\* stored, and is answered BadRequest.
C21_Witness ==
    /\ last.op = "PATCH /jobs/:title"
    /\ last.caller = Admin
    /\ last.id \notin TitlesBefore
    /\ Cardinality(Broken) >= 2
    /\ last.threw = "BadRequestError"

\* C22: Job.get(title) and Company.get(handle) return the stored row with
\* that identifier when there is one, and fail otherwise with NotFoundError
\* whose message contains the identifier; storage is unchanged either way.
C22_GetReturnsRowOrNamesMissing ==
    /\ (last.op = "Job.get") =>
            /\ jobs = last.before.jobs /\ companies = last.before.companies
            /\ IF last.id \in TitlesBefore
               THEN /\ last.threw = "none"
                    /\ Len(last.rows) = 1
                    /\ last.rows[1].title = Str(last.id)
                    /\ \E i \in 1..Len(jobs) :
                          /\ last.rows[1].salary = jobs[i].salary
                          /\ last.rows[1].companyhandle = jobs[i].company_handle
                          /\ jobs[i].title = Str(last.id)
               ELSE /\ last.threw = "NotFoundError"
                    /\ last.id \in Range(last.named)
    /\ (last.op = "Company.get") =>
            /\ jobs = last.before.jobs /\ companies = last.before.companies
            /\ IF last.id \in HandlesBefore
               THEN /\ last.threw = "none"
                    /\ Len(last.rows) = 1
                    /\ \E i \in 1..Len(companies) :
                          /\ companies[i].handle = Str(last.id)
                          /\ last.rows[1].handle = companies[i].handle
                          /\ last.rows[1].name = companies[i].name
                          /\ last.rows[1].numEmployees = companies[i].num_employees
               ELSE /\ last.threw = "NotFoundError"
                    /\ last.id \in Range(last.named)

\* C22 witness: Job.get of a title that no stored position has, while
\* positions are stored, fails and names the title.
C22_Witness ==
    /\ last.op = "Job.get"
    /\ Len(jobs) > 0
    /\ last.id \notin TitlesBefore
    /\ last.threw = "NotFoundError"
    /\ last.named = <<last.id>>

\* C23: the handle of a company does not change after creation: whatever
\* payload Company.update(handle, data) is given, a handle key included, the
\* set of handles of the stored companies is the same after the call.
C23_HandleImmutable ==
    (last.op = "Company.update") =>
        StoredHandles(companies) = StoredHandles(last.before.companies)

\* C24: when an update and a remove of one stored identifier run together,
\* in every order of their statements the remove succeeds, the update
\* succeeds or fails with NotFound, and no row has the identifier at the end.
\* The update carries a payload that is not empty, so that it holds a statement.
C24_UpdateAgainstRemove ==
    (/\ AllDone
     /\ tasks[1].op \in {"Job.update", "Company.update"}
     /\ Len(tasks[1].data) > 0) =>
        /\ tasks[2].threw = "none"
        /\ tasks[1].threw \in {"none", "NotFoundError"}
        /\ ~Stored(jobs, "title", tasks[1].id) \/ tasks[1].op # "Job.update"
        /\ ~Stored(companies, "handle", tasks[1].id) \/ tasks[1].op # "Company.update"

\* C25: for every filter mapping over {title, minSalary, hasEquity} with
\* values of the expected kinds, in every order of its keys, each placeholder
\* of the WHERE clause Job.findAll builds is bound to the value of its own
\* fragment: that of title to the title between two percent signs, that of
\* minSalary to the minSalary value, that of hasEquity to the text 0.
C25_PlaceholderBoundToOwnValue ==
    (/\ last.op = "Job.findAll"
     /\ ArgKeys \subseteq JobFilterKeys
     /\ WellTyped(last.arg.o)) =>
        LET w == ParseWhere(last.sql)
            bound(i) == last.params[w.items[i].ph]
        IN  /\ w.ok
            /\ Len(w.items) = Len(last.arg.o)
            /\ \A i \in 1..Len(w.items) :
                  /\ w.items[i].ph \in 1..Len(last.params)
                  /\ w.items[i].col = "title" =>
                        bound(i) = Str(<<"%">> \o Get(last.arg.o, "title").s \o <<"%">>)
                  /\ w.items[i].col = "salary" =>
                        bound(i) = Get(last.arg.o, "minSalary")
                  /\ w.items[i].col = "equity" => bound(i) = Str(<<"0">>)

\* The tokens of a statement before and from its WHERE.
WhereAt(sql) == CHOOSE i \in 1..Len(sql) : sql[i] = Word("WHERE")

\* C26: in Job.update and Company.update with a payload of n fields, the
\* identifier is bound as parameter n+1 and is the last of the parameters,
\* the WHERE placeholder is $(n+1) and no SET placeholder is: the SET
\* placeholders are $1..$n, each bound to the value of its field.
C26_IdentifierBoundLast ==
    (/\ last.op \in {"Job.update", "Company.update"}
     /\ last.stmts > 0) =>
        LET n == Len(last.arg.o)
            at == WhereAt(last.sql)
            setPh == Placeholders(SubSeq(last.sql, 1, at - 1))
            wherePh == Placeholders(SubSeq(last.sql, at, Len(last.sql)))
        IN  /\ n > 0
            /\ Len(last.params) = n + 1
            /\ last.params[n + 1] = Str(last.id)
            /\ Len(wherePh) = 1
            /\ wherePh[1].n = n + 1
            /\ Len(setPh) = n
            /\ \A i \in 1..n :
                  /\ setPh[i].n = i
                  /\ last.params[i] = last.arg.o[i].v

\* C26 witness: Job.update of a stored position with two fields changed it.
C26_Witness ==
    /\ last.op = "Job.update"
    /\ Len(last.arg.o) = 2
    /\ last.id \in TitlesBefore
    /\ last.threw = "none"
    /\ Len(last.params) = 3

\* C27: when Company.create is called twice together with one handle, each
\* call looking for the handle and then inserting as two steps, in every
\* order of the steps at most one company with the handle is stored at the
\* end, and a call that did not insert ends in BadRequest, in no other failure.
C27_CreateAgainstCreate ==
    (/\ AllDone
     /\ tasks[1].op = "Company.create") =>
        /\ Cardinality({r \in 1..Len(companies) :
                            companies[r].handle = Str(tasks[1].id)}) <= 1
        /\ \A i \in 1..Len(tasks) : tasks[i].threw \in {"none", "BadRequestError"}

\* C28: after any sequence of Job.create, Job.update and Job.remove, no two
\* stored positions have the same title, so a get, update or remove by
\* title reaches at most one row.
C28_TitlesUnique ==
    \A i, j \in 1..Len(jobs) : i # j => jobs[i].title # jobs[j].title

\* C29: Job.findAll and Company.findAll leave the filter mapping they are
\* passed as it was, so that a second call with the same mapping object and
\* no write between issues the same query text with the same values and
\* returns the same rows.
C29_FindAllKeepsMapping ==
    (/\ last.op \in {"Job.findAll", "Company.findAll"}
     /\ last.arg.t = "object"
     /\ last.threw = "none") =>
        LET again == IF last.op = "Job.findAll"
                     THEN JobFindAll(jobs, Obj(last.query))
                     ELSE CompanyFindAll(companies, Obj(last.query))
        IN  /\ last.query = last.arg.o
            /\ again.threw = "none"
            /\ again.sql = last.sql
            /\ again.params = last.params
            /\ last.rows \in again.rowsets

\* C30: for every non-empty filter mapping with keys among {name,
\* minEmployees, maxEmployees}, in any key order, the i-th placeholder of
\* the WHERE clause Company.findAll builds is $i and is bound to the value
\* of the i-th key (the name as the text ILIKE is given, between percent
\* signs), with as many placeholders as values; a mapping with a key outside
\* the three fails with BadRequest naming every such key before any query.
C30_CompanyPlaceholdersInKeyOrder ==
    (/\ last.op = "Company.findAll"
     /\ last.arg.t = "object"
     /\ Len(last.arg.o) > 0) =>
        LET ph == Placeholders(last.sql)
            n == Len(last.arg.o)
            own(i) == last.arg.o[i]
        IN  IF ArgKeys \subseteq CompanyFilterKeys
            THEN /\ last.stmts = 1
                 /\ Len(ph) = n
                 /\ Len(last.params) = n
                 /\ \A i \in 1..n :
                       /\ ph[i].n = i
                       /\ \/ last.params[i] = own(i).v
                          \/ /\ own(i).k = "name"
                             /\ last.params[i] = Str(<<"%">> \o own(i).v.s \o <<"%">>)
            ELSE /\ last.threw = "BadRequestError"
                 /\ last.stmts = 0
                 /\ Range(last.named) = ArgKeys \ CompanyFilterKeys

\* C30 witness: Company.findAll with minEmployees first and name second
\* binds the number to $1 and the wrapped name to $2.
C30_Witness ==
    /\ last.op = "Company.findAll"
    /\ Len(last.arg.o) = 2
    /\ last.arg.o[1].k = "minEmployees"
    /\ last.arg.o[2].k = "name"
    /\ Len(last.arg.o[2].v.s) > 0
    /\ last.threw = "none"
    /\ last.params[2] = Str(<<"%">> \o last.arg.o[2].v.s \o <<"%">>)

====
